---- MODULE Spec2Model ----
(***************************************************************************)
(* Model of cryptostonksbot (src/main.go): the self-refreshing             *)
(* symbol -> provider-id cache (coinQuerier), the price query path         *)
(* (lookupPrice / queryMessage), the inline query path (coinInfo), the     *)
(* /whatif path (ifIBought) and the three telebot handlers of main.        *)
(*                                                                         *)
(* Strings are sequences of one-character strings, so that ToUpper,        *)
(* ToLower, Fields and Atoi are computed and not assumed.                  *)
(***************************************************************************)
EXTENDS Integers, Sequences, FiniteSets, TLC

\* ---------------------------------------------------------------- bounds
MaxList == 2
MaxTextLen == 6
MaxQueryLen == 2
RandMax == 15

\* ------------------------------------------------------- strings (package strings)
LowerCs == <<"a", "u", "s", "d">>
UpperCs == <<"A", "U", "S", "D">>

ToLowerCh(c) ==
    IF \E i \in 1..Len(UpperCs) : UpperCs[i] = c
    THEN LowerCs[CHOOSE i \in 1..Len(UpperCs) : UpperCs[i] = c]
    ELSE c

ToUpperCh(c) ==
    IF \E i \in 1..Len(LowerCs) : LowerCs[i] = c
    THEN UpperCs[CHOOSE i \in 1..Len(LowerCs) : LowerCs[i] = c]
    ELSE c

ToLower(s) == [i \in 1..Len(s) |-> ToLowerCh(s[i])]

ToUpper(s) == [i \in 1..Len(s) |-> ToUpperCh(s[i])]

IsSpace(c) == c = " "

HasPrefix(s, c) == Len(s) >= 1 /\ s[1] = c

RECURSIVE FieldsFrom(_, _, _)
FieldsFrom(s, cur, acc) ==
    IF s = <<>>
    THEN IF cur = <<>> THEN acc ELSE Append(acc, cur)
    ELSE IF IsSpace(Head(s))
         THEN FieldsFrom(Tail(s), <<>>, IF cur = <<>> THEN acc ELSE Append(acc, cur))
         ELSE FieldsFrom(Tail(s), Append(cur, Head(s)), acc)

Fields(s) == FieldsFrom(s, <<>>, <<>>)

\* strings.Split(s, " ")[0]: the text before the first single space
RECURSIVE SplitFirst(_)
SplitFirst(s) ==
    IF s = <<>> \/ Head(s) = " " THEN <<>> ELSE <<Head(s)>> \o SplitFirst(Tail(s))

RECURSIVE TrimLeft(_)
TrimLeft(s) == IF s # <<>> /\ IsSpace(Head(s)) THEN TrimLeft(Tail(s)) ELSE s

RECURSIVE TrimRight(_)
TrimRight(s) ==
    IF s # <<>> /\ IsSpace(s[Len(s)]) THEN TrimRight(SubSeq(s, 1, Len(s) - 1)) ELSE s

TrimSpace(s) == TrimRight(TrimLeft(s))

\* strconv.Atoi on an unsigned decimal string
Digits == <<"0", "1", "2", "3", "4", "5", "6", "7", "8", "9">>

IsDigit(c) == \E i \in 1..Len(Digits) : Digits[i] = c

DigitVal(c) == (CHOOSE i \in 1..Len(Digits) : Digits[i] = c) - 1

RECURSIVE AtoiFrom(_, _)
AtoiFrom(s, acc) ==
    IF s = <<>> THEN acc ELSE AtoiFrom(Tail(s), acc * 10 + DigitVal(Head(s)))

Atoi(s) ==
    IF s # <<>> /\ \A i \in 1..Len(s) : IsDigit(s[i])
    THEN [err |-> FALSE, v |-> AtoiFrom(s, 0)]
    ELSE [err |-> TRUE, v |-> 0]

\* strconv.ParseFloat, on the decimal integers the model feeds it
ParseFloat(s) == Atoi(s)

defaultCurrency == <<"U", "S", "D">>

\* ------------------------------------------------------------ Go maps
EmptyMap == [k \in {} |-> "nil"]

MapSet(m, k, v) == [x \in (DOMAIN m) \cup {k} |-> IF x = k THEN v ELSE m[x]]

\* id, found := m[k]
MapGet(m, k) ==
    IF k \in DOMAIN m THEN [found |-> TRUE, id |-> m[k]] ELSE [found |-> FALSE, id |-> "nil"]

Restrict(m, K) == [x \in K |-> m[x]]

\* --------------------------------------------- the market-data collaborator
Symbols == {<<"a">>, <<"A">>}
IDs == {"id1", "id2"}
Entries == [Symbol : Symbols, ID : IDs]

\* what CoinsList can return
RECURSIVE SeqsUpTo(_, _)
SeqsUpTo(S, n) ==
    IF n = 0 THEN {<<>>}
    ELSE LET shorter == SeqsUpTo(S, n - 1)
         IN  shorter \cup {Append(q, x) : q \in {r \in shorter : Len(r) = n - 1}, x \in S}

ProviderLists == SeqsUpTo(Entries, MaxList)

\* the error texts a failed call can carry: a JSON object with an "error" field
\* (form = "object"; error = "" when the field is absent) or any other text
ErrTexts ==
    { [form |-> "object", error |-> "invalid vs_currency"],
      [form |-> "object", error |-> "coin not found"],
      [form |-> "object", error |-> ""],
      [form |-> "plain", error |-> "context deadline exceeded"] }

CurPrices == {2000}
HistPrices == {200}

\* what CoinsMarket can return: a non-empty result, an empty one, or an error
MarketOutcomes ==
    { [k |-> "items", price |-> p, athOk |-> b, e |-> [form |-> "none", error |-> ""]] :
          p \in CurPrices, b \in BOOLEAN }
    \cup { [k |-> "empty", price |-> 0, athOk |-> TRUE, e |-> [form |-> "none", error |-> ""]] }
    \cup { [k |-> "err", price |-> 0, athOk |-> TRUE, e |-> t] : t \in ErrTexts }

\* ------------------------------------------------------------ cgErr and the texts sent
errInvalidCurrency == [Value |-> "invalid vs_currency"]

\* json.Unmarshal([]byte(err.Error()), &v) into a cgErr
JsonUnmarshal(t) ==
    IF t.form = "object"
    THEN [err |-> FALSE, v |-> [Value |-> t.error]]
    ELSE [err |-> TRUE, v |-> [Value |-> ""]]

\* the texts the bot can produce, as a kind and its arguments
NotSupported(s) == [kind |-> "notSupported", arg |-> <<s>>]
NoResults == [kind |-> "noResults", arg |-> <<>>]
CgErrText(v) == [kind |-> "cgErr", arg |-> <<v.Value>>]
JsonErrText == [kind |-> "jsonSyntaxError", arg |-> <<>>]
Snapshot(item, currency) == [kind |-> "snapshot", arg |-> <<item.price, currency>>]
ApiFailed == [kind |-> "apiFailed", arg |-> <<>>]
NoData(year) == [kind |-> "noData", arg |-> <<year>>]
Usage == [kind |-> "usage", arg |-> <<>>]
Malformed(what) == [kind |-> "malformed", arg |-> <<what>>]
NoText == [kind |-> "none", arg |-> <<>>]

\* ------------------------------------------------------------------ state
VARIABLES
    idMap,          \* coinQuerier.idMap
    idMapUpdating,  \* coinQuerier.idMapUpdating: "free", or the task holding it
    bg,             \* the goroutine running backgroundIDUpdates
    loaded,         \* the list of the last loadCoinIDs that returned nil
    req             \* the goroutine handling one inbound update

vars == <<idMap, idMapUpdating, bg, loaded, req>>

BgInit == [pc |-> "lock", l |-> <<>>, nim |-> EmptyMap, i |-> 1]

NoOutcome == [k |-> "none", price |-> 0, athOk |-> TRUE, e |-> [form |-> "none", error |-> ""]]
NoItem == [price |-> 0, athOk |-> TRUE]
NoRes == [ok |-> FALSE, err |-> NoText, item |-> NoItem]
NoGet == [found |-> FALSE, id |-> "nil"]

Idle ==
    [pc |-> "idle", kind |-> "none", inp |-> <<>>, token |-> <<>>, currency |-> <<>>,
     id0 |-> NoGet, id1 |-> NoGet, looked |-> 0, out |-> NoOutcome, res |-> NoRes,
     amount |-> 0, year |-> 0, month |-> 0, now |-> 0, oldPrice |-> 0,
     drawn |-> [err |-> FALSE, v |-> 0], calls |-> <<>>, sent |-> <<>>]

\* ------------------------------------------- loadCoinIDs / backgroundIDUpdates
\* the ticker fires (or the first pass starts): the loop calls loadCoinIDs
Tick ==
    /\ bg.pc = "tick"
    /\ bg' = [bg EXCEPT !.pc = "lock"]
    /\ UNCHANGED <<idMap, idMapUpdating, loaded, req>>

\* cq.idMapUpdating.Lock(), then the CoinsList call goes out
LoadLock ==
    /\ bg.pc = "lock"
    /\ idMapUpdating = "free"
    /\ idMapUpdating' = "bg"
    /\ bg' = [bg EXCEPT !.pc = "call"]
    /\ UNCHANGED <<idMap, loaded, req>>

\* CoinsList fails: return err, the deferred Unlock runs, the map is untouched
LoadFetchErr ==
    /\ bg.pc = "call"
    /\ idMapUpdating' = "free"
    /\ bg' = [bg EXCEPT !.pc = "tick"]
    /\ UNCHANGED <<idMap, loaded, req>>

\* CoinsList returns l; nim := make(map)
LoadFetchOk ==
    /\ bg.pc = "call"
    /\ \E l \in ProviderLists :
          bg' = [pc |-> "build", l |-> l, nim |-> EmptyMap, i |-> 1]
    /\ UNCHANGED <<idMap, idMapUpdating, loaded, req>>

\* one iteration of the range loop: nim[e.Symbol] = e.ID
NimPut(nim, e) == MapSet(nim, e.Symbol, e.ID)

LoadBuild ==
    /\ bg.pc = "build"
    /\ bg.i <= Len(bg.l)
    /\ bg' = [bg EXCEPT !.nim = NimPut(bg.nim, bg.l[bg.i]), !.i = bg.i + 1]
    /\ UNCHANGED <<idMap, idMapUpdating, loaded, req>>

\* cq.idMap = nim
LoadAssign ==
    /\ bg.pc = "build"
    /\ bg.i > Len(bg.l)
    /\ idMap' = bg.nim
    /\ loaded' = [ok |-> TRUE, l |-> bg.l]
    /\ bg' = [bg EXCEPT !.pc = "assigned"]
    /\ UNCHANGED <<idMapUpdating, req>>

\* return nil: the deferred Unlock
LoadUnlock ==
    /\ bg.pc = "assigned"
    /\ idMapUpdating' = "free"
    /\ bg' = [pc |-> "tick", l |-> <<>>, nim |-> EmptyMap, i |-> 1]
    /\ UNCHANGED <<idMap, loaded, req>>

\* What a read of cq.idMap made without the mutex can observe. It races with
\* loadCoinIDs' writes: until the writer has released the mutex nothing orders
\* the stores that filled nim before the store of the map reference, so the
\* reader may see the new map with any part of its entries.
RacyViews ==
    IF bg.pc = "assigned"
    THEN {Restrict(idMap, K) : K \in SUBSET (DOMAIN idMap)}
    ELSE {idMap}

\* ---------------------------------------------------------------- lookupPrice
Continue(kind) == IF kind = "whatif" THEN "wi_finish" ELSE "qm"

LpLock ==
    /\ req.pc = "lp_lock"
    /\ idMapUpdating = "free"
    /\ idMapUpdating' = "req"
    /\ req' = [req EXCEPT !.pc = "lp_lookup"]
    /\ UNCHANGED <<idMap, bg, loaded>>

\* id, found := cq.idMap[strings.ToLower(token)]; not found: return the error
\* (deferred Unlock); found: the CoinsMarket call goes out with the mutex held
LpLookup ==
    /\ req.pc = "lp_lookup"
    /\ LET g == MapGet(idMap, ToLower(req.token))
       IN  IF ~g.found
           THEN /\ req' = [req EXCEPT !.pc = Continue(req.kind), !.id1 = g,
                                      !.looked = req.looked + 1,
                                      !.res = [ok |-> FALSE, err |-> NotSupported(req.token),
                                               item |-> NoItem]]
                /\ idMapUpdating' = "free"
           ELSE /\ req' = [req EXCEPT !.pc = "lp_call", !.id1 = g,
                                      !.looked = req.looked + 1,
                                      !.calls = Append(req.calls,
                                          [api |-> "CoinsMarket", id |-> g.id,
                                           arg |-> <<req.currency>>])]
                /\ UNCHANGED idMapUpdating
    /\ UNCHANGED <<idMap, bg, loaded>>

\* lines 126-143: what lookupPrice returns for the collaborator's outcome o
lookupPriceResult(o, currency) ==
    IF o.k = "err"
    THEN LET u == JsonUnmarshal(o.e)
         IN  IF u.err
             THEN [ok |-> FALSE, err |-> JsonErrText, item |-> NoItem]
             ELSE IF u.v = errInvalidCurrency
                  THEN [ok |-> FALSE, err |-> NotSupported(ToUpper(currency)), item |-> NoItem]
                  ELSE [ok |-> FALSE, err |-> CgErrText(u.v), item |-> NoItem]
    ELSE IF o.k = "empty"
         THEN [ok |-> FALSE, err |-> NoResults, item |-> NoItem]
         ELSE [ok |-> TRUE, err |-> NoText, item |-> [price |-> o.price, athOk |-> o.athOk]]

\* CoinsMarket answers (or times out); lookupPrice returns, the deferred Unlock runs
LpResp ==
    /\ req.pc = "lp_call"
    /\ \E o \in MarketOutcomes :
          req' = [req EXCEPT !.pc = Continue(req.kind), !.out = o,
                             !.res = lookupPriceResult(o, req.currency)]
    /\ idMapUpdating' = "free"
    /\ UNCHANGED <<idMap, bg, loaded>>

\* ---------------------------------------------------------------- the bot's sends
\* b.Send / b.Answer: the result is discarded by every caller, so delivery may
\* fail without the handler noticing
Msg(what, body, delivered) == [what |-> what, body |-> body, delivered |-> delivered]

Sticker == [kind |-> "sticker", arg |-> <<>>]

Ready == req.pc = "idle"

\* ------------------------------------------------------------------ queryData
queryData(s) ==
    LET f == Fields(s)
    IN  IF Len(f) = 1
        THEN [ticker |-> f[1], currency |-> defaultCurrency, err |-> FALSE]
        ELSE IF Len(f) = 2
             THEN [ticker |-> f[1], currency |-> f[2], err |-> FALSE]
             ELSE [ticker |-> <<>>, currency |-> defaultCurrency, err |-> TRUE]

\* ------------------------------------------------------- the OnText handler
\* lines 306-319, up to the call of queryMessage (which starts with lookupPrice)
OnText(texts) ==
    /\ Ready
    /\ \E m \in texts :
          LET new == [Idle EXCEPT !.kind = "text", !.inp = m]
          IN  IF ~HasPrefix(m, "%")
              THEN req' = [new EXCEPT !.pc = "done"]
              ELSE LET q == queryData(Tail(ToUpper(m)))
                   IN  IF q.err
                       THEN req' = [new EXCEPT !.pc = "done"]
                       ELSE req' = [new EXCEPT !.pc = "lp_lock", !.token = q.ticker,
                                               !.currency = q.currency]
    /\ UNCHANGED <<idMap, idMapUpdating, bg, loaded>>

\* templateData.format: time.Parse of the item's ATH date panics when it fails
formatPanics(item) == ~item.athOk

\* the rest of queryMessage (lines 255-275) and what its caller does with the
\* text: OnText sends it (line 319), OnQuery answers with it (lines 343-359).
\* A panic in format ends the handler with nothing sent. The template is a
\* constant that parses and executes, so its two error returns are not taken.
QueryMessage ==
    /\ req.pc = "qm"
    /\ IF req.res.ok /\ formatPanics(req.res.item)
       THEN req' = [req EXCEPT !.pc = "done"]
       ELSE LET text == IF ~req.res.ok THEN req.res.err
                        ELSE Snapshot(req.res.item, req.currency)
            IN  \E d \in BOOLEAN :
                   IF req.kind = "text"
                   THEN req' = [req EXCEPT !.pc = "doit",
                                           !.sent = Append(req.sent, Msg("text", text, d))]
                   ELSE req' = [req EXCEPT !.pc = "done",
                                           !.sent = Append(req.sent, Msg("answer", text, d))]
    /\ UNCHANGED <<idMap, idMapUpdating, bg, loaded>>

\* ------------------------------------------------------------------------ doIt
\* binary.Read(rand.Reader, ...) fails, or yields v
RandDraws == {[err |-> TRUE, v |-> 0]} \cup {[err |-> FALSE, v |-> v] : v \in 0..RandMax}

SomeDraws == {[err |-> TRUE, v |-> 0], [err |-> FALSE, v |-> 15], [err |-> FALSE, v |-> 5]}

\* doIt with the two divisibility tests joined by "or"
doItEither(r) == IF r.err THEN FALSE ELSE (r.v % 5 = 0) \/ (r.v % 3 = 0)

doIt(r) == IF r.err THEN FALSE ELSE (r.v % 5 = 0) /\ (r.v % 3 = 0)

\* lines 321-323
DoIt(draws) ==
    /\ req.pc = "doit"
    /\ \E r \in draws :
          IF doIt(r)
          THEN \E d \in BOOLEAN :
                  req' = [req EXCEPT !.pc = "done", !.drawn = r,
                                     !.sent = Append(req.sent, Msg("sticker", Sticker, d))]
          ELSE req' = [req EXCEPT !.pc = "done", !.drawn = r]
    /\ UNCHANGED <<idMap, idMapUpdating, bg, loaded>>

\* --------------------------------------------------- the OnQuery handler, coinInfo
\* lines 327-335
OnQuery(queries) ==
    /\ Ready
    /\ \E q \in queries :
          LET tokenID == TrimSpace(SplitFirst(q))
              new == [Idle EXCEPT !.kind = "query", !.inp = q]
          IN  IF Len(tokenID) = 0
              THEN req' = [new EXCEPT !.pc = "done"]
              ELSE req' = [new EXCEPT !.pc = "ci_lookup", !.token = tokenID]
    /\ UNCHANGED <<idMap, idMapUpdating, bg, loaded>>

\* coinInfo, lines 147-152: the map is read without the mutex
CiLookup ==
    /\ req.pc = "ci_lookup"
    /\ \E view \in RacyViews :
          LET g == MapGet(view, ToLower(req.token))
          IN  IF ~g.found
              THEN req' = [req EXCEPT !.pc = "done", !.id0 = g, !.looked = req.looked + 1]
              ELSE req' = [req EXCEPT !.pc = "ci_call", !.id0 = g,
                                      !.looked = req.looked + 1,
                                      !.calls = Append(req.calls,
                                          [api |-> "CoinsID", id |-> g.id, arg |-> <<>>])]
    /\ UNCHANGED <<idMap, idMapUpdating, bg, loaded>>

\* CoinsID answers: an error ends the handler (line 338), data leads to
\* queryMessage(tokenID, defaultCurrency) (line 345)
CiResp ==
    /\ req.pc = "ci_call"
    /\ \E ok \in BOOLEAN :
          IF ok
          THEN req' = [req EXCEPT !.pc = "lp_lock", !.currency = defaultCurrency]
          ELSE req' = [req EXCEPT !.pc = "done"]
    /\ UNCHANGED <<idMap, idMapUpdating, bg, loaded>>

\* ------------------------------------------------- the /whatif handler, ifIBought
\* accounting.FormatMoney* with Precision 2: the value n/d in cents, rounded half up
FormatMoney(n, d) == (200 * n + d) \div (2 * d)

FormatMoneyInt(n) == FormatMoney(n, 1)

\* fmt.Sprintf(ifIHadFmt, ...), lines 405-411
Sentence(amount, token, year, oldPrice, newValue) ==
    [kind |-> "sentence", arg |-> <<amount, token, year, oldPrice, newValue>>]

\* what CoinsIDHistory can return
HistOutcomes ==
    { [k |-> x, price |-> 0] : x \in {"timeout", "err", "nodata", "nocurrency"} }
    \cup { [k |-> "ok", price |-> p] : p \in HistPrices }

\* lines 363-396: f is strings.Fields(m.Text)[1:]
OnWhatIf(cmds) ==
    /\ Ready
    /\ \E f \in cmds, d \in BOOLEAN :
          LET new == [Idle EXCEPT !.kind = "whatif", !.inp = f]
              reply(t) == [new EXCEPT !.pc = "done", !.sent = <<Msg("text", t, d)>>]
          IN  IF Len(f) < 3 THEN req' = reply(Usage)
              ELSE IF ParseFloat(f[1]).err THEN req' = reply(Malformed("amount"))
              ELSE IF Atoi(f[3]).err THEN req' = reply(Malformed("year"))
              ELSE LET mm == IF Len(f) = 4 THEN Atoi(f[3]) ELSE [err |-> FALSE, v |-> 0]
                   IN  req' = [new EXCEPT
                                 !.pc = "iib_lookup",
                                 !.sent = IF mm.err THEN <<Msg("text", Malformed("month"), d)>>
                                          ELSE <<>>,
                                 !.amount = ParseFloat(f[1]).v,
                                 !.token = f[2],
                                 !.year = Atoi(f[3]).v,
                                 !.month = mm.v,
                                 !.currency = ToLower(defaultCurrency)]
    /\ UNCHANGED <<idMap, idMapUpdating, bg, loaded>>

\* ifIBought, lines 158-169: the map is read without the mutex; the month is
\* replaced by time.Now().Month() when out of range; the history call goes out
IibLookup(months) ==
    /\ req.pc = "iib_lookup"
    /\ \E view \in RacyViews, d \in BOOLEAN :
          LET g == MapGet(view, ToLower(req.token))
          IN  IF ~g.found
              THEN req' = [req EXCEPT !.pc = "done", !.id0 = g, !.looked = req.looked + 1,
                             !.sent = Append(req.sent,
                                             Msg("text", NotSupported(req.token), d))]
              ELSE \E now \in months :
                      LET sub == req.month <= 0 \/ req.month > 12
                          month == IF sub THEN now ELSE req.month
                      IN  req' = [req EXCEPT
                                    !.pc = "iib_call", !.id0 = g, !.looked = req.looked + 1,
                                    !.now = IF sub THEN now ELSE 0,
                                    !.month = month,
                                    !.calls = Append(req.calls,
                                        [api |-> "CoinsIDHistory", id |-> g.id,
                                         arg |-> <<15, month, req.year>>])]
    /\ UNCHANGED <<idMap, idMapUpdating, bg, loaded>>

\* lines 171-189: CoinsIDHistory answers; on success lookupPrice(token, currency)
IibResp ==
    /\ req.pc = "iib_call"
    /\ \E o \in HistOutcomes, d \in BOOLEAN :
          LET fail(t) == [req EXCEPT !.pc = "done",
                                     !.sent = Append(req.sent, Msg("text", t, d))]
          IN  IF o.k = "timeout" THEN req' = fail(ApiFailed)
              ELSE IF o.k = "err" THEN req' = fail(NotSupported(req.token))
              ELSE IF o.k = "nodata" THEN req' = fail(NoData(req.year))
              ELSE IF o.k = "nocurrency" THEN req' = fail(NotSupported(req.currency))
              ELSE req' = [req EXCEPT !.pc = "lp_lock", !.oldPrice = o.price]
    /\ UNCHANGED <<idMap, idMapUpdating, bg, loaded>>

\* lines 190-197 and 397-412: oldAmount := amount / oldPrice,
\* newValue := oldAmount * newData.CurrentPrice, as the fraction it denotes
WiFinish ==
    /\ req.pc = "wi_finish"
    /\ \E d \in BOOLEAN :
          IF ~req.res.ok
          THEN req' = [req EXCEPT !.pc = "done",
                                  !.sent = Append(req.sent, Msg("text", req.res.err, d))]
          ELSE LET newN == req.amount * req.res.item.price
                   newD == req.oldPrice
               IN  req' = [req EXCEPT
                             !.pc = "done",
                             !.sent = Append(req.sent,
                                 Msg("text",
                                     Sentence(FormatMoneyInt(500), ToUpper(req.token),
                                              req.year, FormatMoney(req.oldPrice, 1),
                                              FormatMoney(newN, newD)), d))]
    /\ UNCHANGED <<idMap, idMapUpdating, bg, loaded>>

\* ------------------------------------------------------------------ the inputs
T100 == <<"1", "0", "0">>
T500 == <<"5", "0", "0">>
T2018 == <<"2", "0", "1", "8">>
T5 == <<"5">>
T3 == <<"3">>
T13 == <<"1", "3">>
TX == <<"x">>

TextChars == {"%", " ", "a"}
AllTexts == SeqsUpTo(TextChars, MaxTextLen)
SomeTexts == {<<"%", "a">>, <<"%", "a", "a">>}

QueryChars == {"a", "A", " "}
AllQueries == SeqsUpTo(QueryChars, MaxQueryLen)
SomeQueries == {<<"a">>, <<"A">>}

Tickers == {<<"a">>, <<"A">>, <<"a", "a">>}
AllCmds ==
    {<<am, tk>> : am \in {T100}, tk \in {<<"a">>}}
    \cup {<<am, tk, y>> : am \in {T100, T500, TX}, tk \in Tickers, y \in {T2018, T5, TX}}
    \cup {<<am, tk, y, mo>> : am \in {T100}, tk \in {<<"a">>}, y \in {T2018, T5},
                              mo \in {T3, T13, TX}}
    \cup {<<T100, <<"a">>, T2018, T3, T3>>}
SomeCmds == {<<T100, <<"a">>, T2018>>}

MonthsOfYear == 1..12

\* ------------------------------------------------------------ specifications
Init ==
    /\ idMap = EmptyMap
    /\ idMapUpdating = "free"
    /\ bg = BgInit
    /\ loaded = [ok |-> FALSE, l |-> <<>>]
    /\ req = Idle

Refresh == Tick \/ LoadLock \/ LoadFetchErr \/ LoadFetchOk \/ LoadBuild \/ LoadAssign \/ LoadUnlock

\* the handler returns and its goroutine ends
Return ==
    /\ req.pc = "done"
    /\ req' = Idle
    /\ UNCHANGED <<idMap, idMapUpdating, bg, loaded>>

Serve == LpLock \/ LpLookup \/ LpResp \/ QueryMessage \/ CiLookup \/ CiResp
         \/ IibResp \/ WiFinish \/ Return

\* the refresh goroutine beside one request goroutine
Next ==
    \/ Refresh
    \/ Serve
    \/ OnText(SomeTexts)
    \/ OnQuery(SomeQueries)
    \/ OnWhatIf(SomeCmds)
    \/ IibLookup({11})
    \/ DoIt(SomeDraws)

Spec == Init /\ [][Next]_vars

\* the map a completed loadCoinIDs leaves for the list l
RECURSIVE LoadFrom(_, _)
LoadFrom(nim, l) == IF l = <<>> THEN nim ELSE LoadFrom(NimPut(nim, Head(l)), Tail(l))

\* the handlers alone, over every input, from every state a refresh can leave
InitBot ==
    /\ \/ idMap = EmptyMap /\ loaded = [ok |-> FALSE, l |-> <<>>]
       \/ \E l \in ProviderLists : idMap = LoadFrom(EmptyMap, l) /\ loaded = [ok |-> TRUE, l |-> l]
    /\ idMapUpdating = "free"
    /\ bg = [BgInit EXCEPT !.pc = "tick"]
    /\ req = Idle

NextBot ==
    \/ Serve
    \/ OnText(AllTexts)
    \/ OnQuery(AllQueries)
    \/ OnWhatIf(AllCmds)
    \/ IibLookup(MonthsOfYear)
    \/ DoIt(RandDraws)

SpecBot == InitBot /\ [][NextBot]_vars

\* ------------------------------------------------------------------ properties
\* the mapping a list denotes: each symbol to the ID of its last entry
LastEntry(l, sym) == CHOOSE i \in 1..Len(l) :
                        /\ l[i].Symbol = sym
                        /\ \A j \in (i + 1)..Len(l) : l[j].Symbol # sym

MapOf(l) == [sym \in {l[i].Symbol : i \in 1..Len(l)} |-> l[LastEntry(l, sym)].ID]

Complete == IF loaded.ok THEN MapOf(loaded.l) ELSE EmptyMap

LookupPcs == {"lp_lookup", "ci_lookup", "iib_lookup"}

Texts(what) == {i \in 1..Len(req.sent) : req.sent[i].what = what}

\* C1: whatever a reader looks up, it gets the answer of the empty map (no
\* refresh has succeeded) or of the complete map of the last successful
\* refresh, never that of a partly built map; a failed fetch leaves the map as
\* it was.
C1_ReadersSeeCompleteMap ==
    [][ /\ (req.pc \in LookupPcs /\ req'.looked = req.looked + 1)
            => (IF req.pc = "lp_lookup" THEN req'.id1 ELSE req'.id0)
                   = MapGet(Complete, ToLower(req.token))
        /\ (bg.pc = "call" /\ bg'.pc = "tick") => idMap' = idMap ]_vars

\* C2: every access to idMap is made holding idMapUpdating: a request about to
\* read the map holds it, and so does the refresh about to write it.
C2_EveryAccessLocked ==
    /\ req.pc \in LookupPcs => idMapUpdating = "req"
    /\ bg.pc \in {"build", "assigned"} => idMapUpdating = "bg"

\* C3: after a refresh from the list L, looking up the lower-cased symbol of
\* any entry of L finds the ID of the last entry with that symbol; a ticker
\* that is not found is reported as not supported and no collaborator call
\* is made for it.
C3_LookupFindsEverySymbol ==
    /\ loaded.ok =>
          \A i \in 1..Len(loaded.l) :
             MapGet(idMap, ToLower(loaded.l[i].Symbol))
                = [found |-> TRUE, id |-> loaded.l[LastEntry(loaded.l, loaded.l[i].Symbol)].ID]
    /\ (req.kind = "text" /\ req.looked = 1 /\ ~req.id1.found)
          => req.calls = <<>> /\ req.res.err = NotSupported(req.token)
    /\ (req.kind \in {"query", "whatif"} /\ req.looked >= 1 /\ ~req.id0.found)
          => /\ req.calls = <<>>
             /\ req.kind = "whatif" => req.sent[Len(req.sent)].body = NotSupported(req.token)

\* C4: a failed price query is answered with one of the user-facing kinds:
\* not supported (asset or currency) or no results found; an absent ticker with
\* "<ticker> not supported", the sentinel "invalid vs_currency" with
\* "<CURRENCY> not supported", an empty result with "no results found".
C4_FailuresAreUserFacing ==
    (req.kind = "text" /\ Len(req.sent) >= 1 /\ ~req.res.ok) =>
        LET body == req.sent[1].body
        IN  /\ body.kind \in {"notSupported", "noResults"}
            /\ ~req.id1.found => body = NotSupported(req.token)
            /\ (req.out.k = "err" /\ req.out.e.form = "object"
                /\ req.out.e.error = "invalid vs_currency")
                  => body = NotSupported(ToUpper(req.currency))
            /\ req.out.k = "empty" => body.kind = "noResults"

\* the month argument of a /whatif command, when it is an integer
MonthArg(f) == IF Len(f) >= 4 THEN Atoi(f[4]) ELSE [err |-> TRUE, v |-> 0]

\* C5: the history request of /whatif <amount> <ticker> <year> [<month>] is
\* for day 15 of the year given and of the month given when that is an
\* integer in 1..12, of the current month when it is omitted or out of range.
C5_HistoryDate ==
    (req.kind = "whatif" /\ Len(req.calls) >= 1 /\ (Len(req.inp) < 4 \/ ~MonthArg(req.inp).err)) =>
        LET f == req.inp
            m == MonthArg(f)
            given == Len(f) >= 4 /\ m.v \in 1..12
        IN  /\ req.calls[1].api = "CoinsIDHistory"
            /\ given => req.calls[1].arg = <<15, m.v, Atoi(f[3]).v>>
            /\ ~given => req.now \in 1..12 /\ req.calls[1].arg = <<15, req.now, Atoi(f[3]).v>>

\* C6: the sentence of a successful /whatif shows the amount of the command,
\* the ticker, the year, the historical price and amount / historicalPrice *
\* currentPrice.
C6_SentenceEmbedsAmount ==
    \A i \in Texts("text") :
       (req.kind = "whatif" /\ req.sent[i].body.kind = "sentence") =>
           LET f == req.inp
               a == req.sent[i].body.arg
           IN  /\ a[1] = 100 * Atoi(f[1]).v
               /\ a[2] = ToUpper(f[2])
               /\ a[3] = Atoi(f[3]).v
               /\ a[4] = 100 * req.oldPrice
               /\ a[5] * req.oldPrice = 100 * Atoi(f[1]).v * req.res.item.price

\* the tokens typed after the prefix, in the upper case the handler gives them
Typed(m) == LET f == Fields(Tail(m)) IN [i \in 1..Len(f) |-> ToUpper(f[i])]

\* C7: a text "%<ticker> [<currency>]" is queried as (ticker, currency or USD)
\* and gets exactly one text reply; with no token or more than two nothing is
\* sent and neither the cache nor the collaborator is consulted; a text
\* without the prefix gets no reply.
C7_TextQuery ==
    (req.kind = "text" /\ req.pc = "done") =>
        IF ~HasPrefix(req.inp, "%") THEN req.sent = <<>>
        ELSE LET t == Typed(req.inp)
             IN  IF Len(t) \in {1, 2}
                 THEN /\ req.token = t[1]
                      /\ req.currency = (IF Len(t) = 2 THEN t[2] ELSE <<"U", "S", "D">>)
                      /\ Cardinality(Texts("text")) = 1
                 ELSE req.sent = <<>> /\ req.looked = 0 /\ req.calls = <<>>

\* where a sticker may stand: in the reply to a well-formed % query, once, after
\* the text, for a draw that succeeded and is divisible by 15
StickerPlace(i) ==
    /\ req.kind = "text"
    /\ HasPrefix(req.inp, "%") /\ Len(Typed(req.inp)) \in {1, 2}
    /\ i = 2 /\ req.sent[1].what = "text"
    /\ Cardinality(Texts("sticker")) = 1
    /\ ~req.drawn.err /\ req.drawn.v % 15 = 0

\* C8, as claimed: the sticker follows a reply that was composed and
\* successfully sent.
C8_StickerAfterDeliveredReply ==
    \A i \in Texts("sticker") : StickerPlace(i) /\ req.sent[1].delivered

\* C8, amended: the sticker follows a reply that was composed and handed to
\* Send, whether or not it was delivered; at most one per message; only for a
\* successful draw divisible by 15; never for an inline query, a /whatif or a
\* dropped query.
C8_StickerAfterReply ==
    \A i \in Texts("sticker") : StickerPlace(i)

C8_Witness ==
    /\ req.kind = "text" /\ req.pc = "done"
    /\ Len(req.sent) = 2 /\ req.sent[2].what = "sticker" /\ req.sent[1].what = "text"
    /\ req.drawn.v = 15

\* C9: the mutex is never held while a market-data call is outstanding, so the
\* refresh never waits for a request that awaits the collaborator, and a
\* lookup never waits for the refresh's fetch.
C9_NoCallUnderMutex ==
    /\ req.pc = "lp_call" => idMapUpdating # "req"
    /\ bg.pc = "call" => idMapUpdating # "bg"
    /\ ~(bg.pc = "lock" /\ idMapUpdating = "req" /\ req.pc = "lp_call")
    /\ ~(req.pc = "lp_lock" /\ idMapUpdating = "bg" /\ bg.pc = "call")

\* C10: a what-if takes the historical and the current price of the same
\* provider identifier.
C10_SameAssetBothPrices ==
    (req.kind = "whatif" /\ Len(req.calls) = 2) => req.calls[1].id = req.calls[2].id
====
